---------------------------- MODULE Spec2Model ----------------------------
(***************************************************************************)
(* A model of run_market_ohlcv.py: one invocation of the script, from the  *)
(* creation of the output directory to the process exit.                   *)
(*                                                                         *)
(* Column names are Korean in the source.  They are written here in ASCII: *)
(*   nalja  (date, the provider's index name)    ilja  (date, canonical)   *)
(*   siga goga jeoga jongga  (open high low close)                         *)
(*   georaeryang (volume)   georaedaegeum (trading value)                  *)
(*   deungnakryul (change rate)                                            *)
(*   gongmaedo (short volume)         maesu (buy)     bijung (ratio)       *)
(*   gongmaedo_bijung (short-volume ratio)                                 *)
(*   gongmaedo_jango (short balance)  gongmaedo_jango_bijung (its ratio)   *)
(*                                                                         *)
(* Text is a sequence of one-character strings.  Floats are modelled by    *)
(* the integers (every number of the model is a whole number, n standing   *)
(* for the float n.0); a timestamp is a day number counted from            *)
(* 1970-01-01 (the time of day plays no part: strftime drops it).          *)
(***************************************************************************)
EXTENDS Integers, Sequences, FiniteSets, TLC

(***************************************************************************)
(* Configuration (lines 25-28) and the bounds of the model.                *)
(***************************************************************************)
LOOKBACK_DAYS == 400

\* the day datetime.today() returns, as a day number: 20454 is 2026-01-01,
\* so that the fetch window crosses a year boundary and a month boundary
TodayOrdinal == 20454

\* most rows of a table the provider returns
MaxRows == 2

(***************************************************************************)
(* Cells.  A cell of a provider table is a missing value (None, NaN, NaT), *)
(* a number, a timestamp or a text.                                        *)
(***************************************************************************)
NaN == [k |-> "nan", v |-> 0, s |-> <<>>]
Num(n) == [k |-> "num", v |-> n, s |-> <<>>]
Ts(d) == [k |-> "ts", v |-> d, s |-> <<>>]
Str(t) == [k |-> "str", v |-> 0, s |-> t]

\* pd.isna
isna(x) == x.k = "nan"

Digits == <<"0", "1", "2", "3", "4", "5", "6", "7", "8", "9">>

IsDigit(c) == \E i \in 1..10 : Digits[i] = c

DigitVal(c) == (CHOOSE i \in 1..10 : Digits[i] = c) - 1

\* str.replace(",", "")
RemoveCommas(t) == SelectSeq(t, LAMBDA c : c # ",")

RECURSIVE LStrip(_)
LStrip(t) == IF t # <<>> /\ Head(t) = " " THEN LStrip(Tail(t)) ELSE t

RECURSIVE RStrip(_)
RStrip(t) ==
  IF t # <<>> /\ t[Len(t)] = " " THEN RStrip(SubSeq(t, 1, Len(t) - 1)) ELSE t

\* str.strip()
Strip(t) == RStrip(LStrip(t))

AllDigits(t) == t # <<>> /\ \A i \in 1..Len(t) : IsDigit(t[i])

RECURSIVE DigitsValue(_)
DigitsValue(t) ==
  IF t = <<>> THEN 0
  ELSE 10 * DigitsValue(SubSeq(t, 1, Len(t) - 1)) + DigitVal(t[Len(t)])

\* float(s) of the texts the model uses: an optional sign and decimal digits.
\* FloatOk is "float(s) does not raise".
FloatOk(t) ==
  \/ AllDigits(t)
  \/ t # <<>> /\ Head(t) \in {"-", "+"} /\ AllDigits(Tail(t))

FloatValue(t) ==
  IF Head(t) = "-" THEN 0 - DigitsValue(Tail(t))
  ELSE IF Head(t) = "+" THEN DigitsValue(Tail(t))
  ELSE DigitsValue(t)

\* _to_num (lines 31-39)
to_num(x) ==
  IF isna(x) THEN NaN
  ELSE IF x.k = "num" THEN Num(x.v)
  ELSE LET t == Strip(RemoveCommas(x.s))
       IN  IF FloatOk(t) THEN Num(FloatValue(t)) ELSE NaN


(***************************************************************************)
(* Calendar dates: datetime and pandas Timestamp arithmetic and formatting *)
(* (the proleptic Gregorian calendar, as the datetime module computes it). *)
(***************************************************************************)
\* the civil date <<y, m, d>> of day number z (days since 1970-01-01)
CivilFromDays(z) ==
  LET zz  == z + 719468
      era == zz \div 146097
      doe == zz - era * 146097
      yoe == (doe - doe \div 1460 + doe \div 36524 - doe \div 146096) \div 365
      doy == doe - (365 * yoe + yoe \div 4 - yoe \div 100)
      mp  == (5 * doy + 2) \div 153
      d   == doy - (153 * mp + 2) \div 5 + 1
      m   == IF mp < 10 THEN mp + 3 ELSE mp - 9
      y   == yoe + era * 400 + (IF m <= 2 THEN 1 ELSE 0)
  IN  <<y, m, d>>

\* the day number of the civil date y-m-d
DaysFromCivil(y, m, d) ==
  LET yy  == IF m <= 2 THEN y - 1 ELSE y
      era == yy \div 400
      yoe == yy - era * 400
      doy == (153 * (IF m > 2 THEN m - 3 ELSE m + 9) + 2) \div 5 + d - 1
      doe == yoe * 365 + yoe \div 4 - yoe \div 100 + doy
  IN  era * 146097 + doe - 719468

\* n as w decimal digits, zero padded
RECURSIVE Pad(_, _)
Pad(n, w) == IF w = 0 THEN <<>> ELSE Append(Pad(n \div 10, w - 1), Digits[(n % 10) + 1])

\* strftime("%Y%m%d")
strftime_compact(z) ==
  LET c == CivilFromDays(z) IN Pad(c[1], 4) \o Pad(c[2], 2) \o Pad(c[3], 2)

\* strftime("%Y-%m-%d")
strftime_iso(z) ==
  LET c == CivilFromDays(z)
  IN  Pad(c[1], 4) \o <<"-">> \o Pad(c[2], 2) \o <<"-">> \o Pad(c[3], 2)

\* _yyyymmdd_range (lines 47-50): <<start, end>> for today's day number
yyyymmdd_range(today, days) ==
  <<strftime_compact(today - days), strftime_compact(today)>>

\* a text pd.to_datetime parses: YYYY-MM-DD naming a day of the calendar
IsIsoDate(t) ==
  /\ Len(t) = 10
  /\ t[5] = "-" /\ t[8] = "-"
  /\ \A i \in {1, 2, 3, 4, 6, 7, 9, 10} : IsDigit(t[i])
  /\ LET y == DigitsValue(SubSeq(t, 1, 4))
         m == DigitsValue(SubSeq(t, 6, 7))
         d == DigitsValue(SubSeq(t, 9, 10))
     IN  /\ m \in 1..12 /\ d \in 1..31
         /\ CivilFromDays(DaysFromCivil(y, m, d)) = <<y, m, d>>

IsoDays(t) ==
  DaysFromCivil(DigitsValue(SubSeq(t, 1, 4)), DigitsValue(SubSeq(t, 6, 7)),
                DigitsValue(SubSeq(t, 9, 10)))

\* pd.to_datetime of one cell: does it raise?  (errors="raise" is the default)
to_datetime_raises(x) == x.k = "str" /\ ~IsIsoDate(Strip(x.s))

\* pd.to_datetime of one cell that does not raise: a missing value gives NaT,
\* a number counts nanoseconds from the epoch (day 0 for the model's numbers)
to_datetime(x) ==
  IF x.k = "ts" THEN x
  ELSE IF x.k = "num" THEN Ts(0)
  ELSE IF x.k = "str" THEN Ts(IsoDays(Strip(x.s)))
  ELSE NaN

\* Series.dt.strftime("%Y-%m-%d") of one cell: NaT gives NaN
dt_strftime(x) == IF isna(x) THEN NaN ELSE Str(strftime_iso(x.v))

\* the code point order of the characters of a formatted date
Ord(c) == IF c = "-" THEN 45 ELSE 48 + DigitVal(c)

\* Python's str < str
RECURSIVE StrLess(_, _)
StrLess(a, b) ==
  IF b = <<>> THEN FALSE
  ELSE IF a = <<>> THEN TRUE
  ELSE IF Head(a) = Head(b) THEN StrLess(Tail(a), Tail(b))
  ELSE Ord(Head(a)) < Ord(Head(b))

(***************************************************************************)
(* Tables.  A DataFrame is [df, index_name, columns, rows]: df is FALSE    *)
(* for a provider result that is no DataFrame (None); index_name is None   *)
(* for an unnamed index; a row maps every column name (and the name of a   *)
(* named index) to a cell.                                                 *)
(***************************************************************************)
None == "<None>"

Range(f) == {f[i] : i \in DOMAIN f}

DataFrame(cols) == [df |-> TRUE, index_name |-> None, columns |-> cols, rows |-> <<>>]

NotADataFrame == [df |-> FALSE, index_name |-> None, columns |-> <<>>, rows |-> <<>>]

\* DataFrame.empty: an axis of length 0
empty(t) == t.columns = <<>> \/ t.rows = <<>>

\* DataFrame.reset_index(): the named index becomes the first column
reset_index(t) ==
  [t EXCEPT !.columns = <<t.index_name>> \o t.columns, !.index_name = None]

\* DataFrame.rename(columns={old: new}), for tables without a column new
rename(t, old, new) ==
  LET N(c) == IF c = old THEN new ELSE c
      cols == [i \in DOMAIN t.columns |-> N(t.columns[i])]
      R(r) == [c \in Range(cols) |-> IF c = new /\ old \in DOMAIN r THEN r[old] ELSE r[c]]
  IN  IF old \in Range(t.columns)
      THEN [t EXCEPT !.columns = cols, !.rows = [i \in DOMAIN t.rows |-> R(t.rows[i])]]
      ELSE t

\* str(c).strip() of a column name: the padded name of the model is " bijung "
StripName(c) == IF c = " bijung " THEN "bijung" ELSE c

\* sv.rename(columns={c: str(c).strip() for c in sv.columns}) (lines 75, 90)
strip_columns(t) ==
  LET cols == [i \in DOMAIN t.columns |-> StripName(t.columns[i])]
      R(r) == [c \in Range(cols) |->
                 r[CHOOSE o \in DOMAIN r : StripName(o) = c /\ o \in Range(t.columns)]]
  IN  [t EXCEPT !.columns = cols, !.rows = [i \in DOMAIN t.rows |-> R(t.rows[i])]]

\* df[c] = df[c].apply(_to_num) (line 44)
apply_to_num(t, col) ==
  LET R(r) == [r EXCEPT ![col] = to_num(r[col])]
  IN  [t EXCEPT !.rows = [i \in DOMAIN t.rows |-> R(t.rows[i])]]

\* _normalize_numeric (lines 41-45)
RECURSIVE normalize_numeric(_, _)
normalize_numeric(t, cols) ==
  IF cols = <<>> THEN t
  ELSE LET u == IF Head(cols) \in Range(t.columns) THEN apply_to_num(t, Head(cols))
                ELSE t
       IN  normalize_numeric(u, Tail(cols))

\* df[cols]: the columns cols, in that order
select(t, cols) ==
  LET R(r) == [c \in Range(cols) |-> r[c]]
  IN  [t EXCEPT !.columns = cols, !.rows = [i \in DOMAIN t.rows |-> R(t.rows[i])]]

\* drop_duplicates("ilja"): the first row of every date is kept
RECURSIVE DropDupRows(_, _)
DropDupRows(rows, seen) ==
  IF rows = <<>> THEN <<>>
  ELSE IF Head(rows).ilja \in seen THEN DropDupRows(Tail(rows), seen)
  ELSE <<Head(rows)>> \o DropDupRows(Tail(rows), seen \cup {Head(rows).ilja})

drop_duplicates(t) == [t EXCEPT !.rows = DropDupRows(t.rows, {})]

\* dropna(subset=["ilja"])
dropna(t) == [t EXCEPT !.rows = SelectSeq(t.rows, LAMBDA r : ~isna(r.ilja))]

\* the order of sort_values on the date column: missing dates come last in
\* either direction
Before(a, b, descending) ==
  IF isna(a) THEN FALSE
  ELSE IF isna(b) THEN TRUE
  ELSE IF descending THEN StrLess(b.s, a.s)
  ELSE StrLess(a.s, b.s)

RECURSIVE InsertRow(_, _, _)
InsertRow(sorted, r, descending) ==
  IF sorted = <<>> THEN <<r>>
  ELSE IF Before(r.ilja, Head(sorted).ilja, descending) THEN <<r>> \o sorted
  ELSE <<Head(sorted)>> \o InsertRow(Tail(sorted), r, descending)

RECURSIVE SortRows(_, _)
SortRows(rows, descending) ==
  IF rows = <<>> THEN <<>>
  ELSE InsertRow(SortRows(SubSeq(rows, 1, Len(rows) - 1), descending),
                 rows[Len(rows)], descending)

\* sort_values("ilja", ascending = ~descending); rows of one date keep their
\* order (the sort of a short column is an insertion sort)
sort_values(t, descending) == [t EXCEPT !.rows = SortRows(t.rows, descending)]

\* the columns of right other than the key
OtherColumns(right) == SelectSeq(right.columns, LAMBDA c : c # "ilja")

\* a row of left joined with a row of right
Joined(l, r, right) ==
  [c \in DOMAIN l \cup Range(OtherColumns(right)) |-> IF c \in DOMAIN l THEN l[c] ELSE r[c]]

\* a row of left without a match in right
Unmatched(l, right) ==
  [c \in DOMAIN l \cup Range(OtherColumns(right)) |-> IF c \in DOMAIN l THEN l[c] ELSE NaN]

RECURSIVE LeftJoinRows(_, _)
LeftJoinRows(lrows, right) ==
  IF lrows = <<>> THEN <<>>
  ELSE LET l == Head(lrows)
           m == SelectSeq(right.rows, LAMBDA r : r.ilja = l.ilja)
       IN  (IF m = <<>> THEN <<Unmatched(l, right)>>
            ELSE [i \in DOMAIN m |-> Joined(l, m[i], right)])
           \o LeftJoinRows(Tail(lrows), right)

RECURSIVE InnerJoinRows(_, _)
InnerJoinRows(lrows, right) ==
  IF lrows = <<>> THEN <<>>
  ELSE LET l == Head(lrows)
           m == SelectSeq(right.rows, LAMBDA r : r.ilja = l.ilja)
       IN  [i \in DOMAIN m |-> Joined(l, m[i], right)] \o InnerJoinRows(Tail(lrows), right)

\* left.merge(right, on="ilja", how="inner")
merge_inner(left, right) ==
  [left EXCEPT !.columns = left.columns \o OtherColumns(right),
               !.rows = InnerJoinRows(left.rows, right)]

\* left.merge(right, on="ilja", how="outer"): the dates of right alone follow
merge_outer(left, right) ==
  LET cols == left.columns \o OtherColumns(right)
      alone == SelectSeq(right.rows,
                 LAMBDA r : \A i \in DOMAIN left.rows : left.rows[i].ilja # r.ilja)
      R(r) == [c \in Range(cols) |-> IF c \in DOMAIN r THEN r[c] ELSE NaN]
  IN  [left EXCEPT !.columns = cols,
                   !.rows = LeftJoinRows(left.rows, right) \o [i \in DOMAIN alone |-> R(alone[i])]]

\* left.merge(right, on="ilja", how="left") (line 100)
merge(left, right) ==
  [left EXCEPT !.columns = left.columns \o OtherColumns(right),
               !.rows = LeftJoinRows(left.rows, right)]

SHORT_COLS == <<"gongmaedo", "gongmaedo_bijung", "gongmaedo_jango", "gongmaedo_jango_bijung">>

\* no fill at all
fillna_skip(t) == t

\* out[c] = out[c].fillna(0) for the four short-selling columns (lines 103-105)
fillna(t) ==
  LET R(r) == [c \in DOMAIN r |->
                 IF c \in Range(SHORT_COLS) /\ isna(r[c]) THEN Num(0) ELSE r[c]]
  IN  [t EXCEPT !.rows = [i \in DOMAIN t.rows |-> R(t.rows[i])]]

(***************************************************************************)
(* The three normalisations of main().  Each gives [exc, df]: the          *)
(* exception it raises ("none" when it raises none) and the table.         *)
(***************************************************************************)
PRICE_NUMERIC ==
  <<"siga", "goga", "jeoga", "jongga", "georaeryang", "georaedaegeum", "deungnakryul">>

BASE_COLS == <<"ilja", "siga", "goga", "jeoga", "jongga", "georaeryang", "deungnakryul">>

SV_COLS == <<"ilja", "gongmaedo", "gongmaedo_bijung">>

SB_COLS == <<"ilja", "gongmaedo_jango", "gongmaedo_jango_bijung">>

\* the header the module's docstring gives (line 9)
SCHEMA == BASE_COLS \o SHORT_COLS

Raised(e) == [exc |-> e, df |-> NotADataFrame]

Returned(t) == [exc |-> "none", df |-> t]

DateRaises(t, col) == \E i \in DOMAIN t.rows : to_datetime_raises(t.rows[i][col])

FormatDate(x) == dt_strftime(to_datetime(x))

\* lines 61-67, of the result t of get_market_ohlcv
normalize_ohlcv(t) ==
  IF ~t.df THEN Raised("AttributeError")
  ELSE
    LET t1 == IF t.index_name # None THEN reset_index(t) ELSE t
        t2 == rename(t1, "nalja", "ilja")
    IN  IF "ilja" \notin Range(t2.columns) THEN Raised("KeyError")
        ELSE IF DateRaises(t2, "ilja") THEN Raised("ValueError")
        ELSE
          LET F(r) == [r EXCEPT !.ilja = FormatDate(r.ilja)]
              t3 == [t2 EXCEPT !.rows = [i \in DOMAIN t2.rows |-> F(t2.rows[i])]]
              t4 == normalize_numeric(t3, PRICE_NUMERIC)
              base_cols == SelectSeq(BASE_COLS, LAMBDA c : c \in Range(t4.columns))
          IN  Returned(sort_values(drop_duplicates(select(t4, base_cols)), FALSE))

\* lines 72-82 and 87-97, of the result t of a short-selling fetch: qty is
\* the provider's quantity column, cols the canonical columns of the table
normalize_short(t, qty, cols) ==
  IF t.df /\ ~empty(t) THEN
    LET t1 == IF t.index_name # None THEN reset_index(t) ELSE t
        t2 == strip_columns(t1)
        date_col == IF "nalja" \in Range(t2.columns) THEN "nalja" ELSE t2.columns[1]
    IN  IF ~({qty, "bijung"} \subseteq Range(t2.columns)) THEN Raised("KeyError")
        ELSE IF DateRaises(t2, date_col) THEN Raised("ValueError")
        ELSE
          LET R(r) == [c \in Range(cols) |->
                         IF c = cols[1] THEN FormatDate(r[date_col])
                         ELSE IF c = cols[2] THEN r[qty]
                         ELSE r["bijung"]]
              t3 == [t2 EXCEPT !.columns = cols, !.rows = [i \in DOMAIN t2.rows |-> R(t2.rows[i])]]
          IN  Returned(dropna(normalize_numeric(t3, Tail(cols))))
  ELSE Returned(DataFrame(cols))

\* lines 72-82
normalize_sv(t) == normalize_short(t, "gongmaedo", SV_COLS)

\* lines 87-97
normalize_sb(t) == normalize_short(t, "gongmaedo_jango", SB_COLS)

\* lines 100-108: the two joins, the fill and the final sort
merge_fill_sort(o, v, b) == sort_values(fillna(merge(merge(o, v), b)), TRUE)

\* to_csv: one line per row, the cells in the order of the columns
CsvLines(t) ==
  [i \in DOMAIN t.rows |-> [j \in DOMAIN t.columns |-> t.rows[i][t.columns[j]]]]

\* Series.min() and Series.max() of the date column (line 113) can raise a
\* TypeError when the column mixes texts and NaN: the reduction of an object
\* column fills the missing values with an infinity and compares it with the
\* texts
MinMaxRaises(t) ==
  /\ \E i \in DOMAIN t.rows : isna(t.rows[i].ilja)
  /\ \E i \in DOMAIN t.rows : ~isna(t.rows[i].ilja)

Dates(t) == {t.rows[i].ilja : i \in DOMAIN t.rows}

MinDate(t) ==
  LET S == {d \in Dates(t) : ~isna(d)}
  IN  IF S = {} THEN NaN ELSE CHOOSE d \in S : \A e \in S : ~StrLess(e.s, d.s)

MaxDate(t) ==
  LET S == {d \in Dates(t) : ~isna(d)}
  IN  IF S = {} THEN NaN ELSE CHOOSE d \in S : \A e \in S : ~StrLess(d.s, e.s)

(***************************************************************************)
(* What the provider may return.                                           *)
(***************************************************************************)
\* the first and the last day of the fetch window, and the day before it
DayStart == TodayOrdinal - LOOKBACK_DAYS
DayEnd == TodayOrdinal
DayBefore == DayStart - 1

SeqsUpTo(S, n) == UNION {[1..k -> S] : k \in 0..n}

Garbage == Str(<<"n", "/", "a">>)

Thousands == Str(<<"1", ",", "2", "3", "4">>)

Dash == Str(<<"-">>)

PriceDateCells == {Ts(DayBefore), Ts(DayEnd), NaN, Garbage}

VolumeDateCells == {Ts(DayEnd - 1), Str(strftime_iso(DayEnd)), NaN, Garbage}

BalanceDateCells == {Str(strftime_iso(DayEnd)), NaN, Garbage}

NumCells == {Thousands, Dash}

\* a row of a table with a date index named nalja and the columns cols,
\* every numeric cell of the row holding the same value
Row(d, x, cols) == [c \in {"nalja"} \cup Range(cols) |-> IF c = "nalja" THEN d ELSE x]

Table(cols, rows) == [df |-> TRUE, index_name |-> "nalja", columns |-> cols, rows |-> rows]

Tables(dates, cols) ==
  {Table(cols, rs) :
     rs \in SeqsUpTo({Row(d, x, cols) : d \in dates, x \in NumCells}, MaxRows)}

\* three trading days in a row
ThreeDays ==
  Table(PRICE_NUMERIC, [i \in 1..3 |-> Row(Ts(DayEnd - 3 + i), Thousands, PRICE_NUMERIC)])

\* get_market_ohlcv: the seven columns of line 59, or the table of an older
\* provider without the change rate, or DataFrame() when there is no data
PriceResults ==
  Tables(PriceDateCells, PRICE_NUMERIC)
    \cup {ThreeDays}
    \cup Tables({Ts(DayEnd)}, SubSeq(PRICE_NUMERIC, 1, 5))
    \cup {DataFrame(<<>>)}

VOLUME_RAW == <<"gongmaedo", "maesu", "bijung">>

BALANCE_RAW ==
  <<"gongmaedo_jango", "sangjang_jusiksu", "gongmaedo_geumaek", "sigachongaek", "bijung">>

\* get_shorting_volume_by_date (line 70); also with a padded column name,
\* without the ratio column, None and DataFrame()
SvResults ==
  Tables(VolumeDateCells, VOLUME_RAW)
    \cup {Table(<<"gongmaedo", "maesu", " bijung ">>,
                <<Row(Ts(DayEnd), Thousands, <<"gongmaedo", "maesu", " bijung ">>)>>),
          Table(<<"gongmaedo", "maesu">>, <<Row(Ts(DayEnd), Thousands, <<"gongmaedo", "maesu">>)>>),
          NotADataFrame, DataFrame(<<>>)}

\* get_shorting_balance_by_date (line 85)
SbResults ==
  Tables(BalanceDateCells, BALANCE_RAW)
    \cup {Table(<<"gongmaedo_jango">>, <<Row(Ts(DayEnd), Thousands, <<"gongmaedo_jango">>)>>),
          NotADataFrame, DataFrame(<<>>)}

\* what lines 60-67, 71-82 and 86-97 make of the provider's results
OhlcvOutcomes == {normalize_ohlcv(t) : t \in PriceResults}

SvOutcomes == {normalize_sv(t) : t \in SvResults}

SbOutcomes == {normalize_sb(t) : t \in SbResults}

(***************************************************************************)
(* The state of one invocation.                                            *)
(***************************************************************************)
VARIABLES
  pc,          \* the statement main() is at
  dir_exists,  \* OUTPUT_DIR exists
  file,        \* the output file: [exists, header, lines]
  file0,       \* the output file as the invocation found it
  dir0,        \* whether the invocation found OUTPUT_DIR
  range,       \* <<s, e>> of line 56
  ohlcv,       \* the locals of main()
  sv,
  sb,
  out,
  exc,         \* the exception that is propagating, "none" if none
  stdout,
  stderr,
  exit_code,   \* -1 while the process runs
  trace        \* the calls with side effects made so far, in order

vars ==
  <<pc, dir_exists, file, file0, dir0, range, ohlcv, sv, sb, out, exc, stdout, stderr,
    exit_code, trace>>

Unset == NotADataFrame

NoFile == [exists |-> FALSE, header |-> <<>>, lines |-> <<>>]

\* the file a run of an earlier day left
OldFile ==
  [exists |-> TRUE, header |-> SCHEMA,
   lines |-> <<[j \in DOMAIN SCHEMA |-> IF j = 1 THEN Str(strftime_iso(DayBefore)) ELSE Num(1)]>>]

Init ==
  /\ pc = "makedirs"
  /\ dir_exists \in BOOLEAN
  /\ file \in {NoFile, OldFile}
  /\ file.exists => dir_exists
  /\ file0 = file
  /\ dir0 = dir_exists
  /\ range = <<>>
  /\ ohlcv = Unset /\ sv = Unset /\ sb = Unset /\ out = Unset
  /\ exc = "none"
  /\ stdout = <<>> /\ stderr = <<>>
  /\ exit_code = -1
  /\ trace = <<>>

\* an exception leaves main(): the frame and its locals are gone
Raise(e) ==
  /\ pc' = "raised"
  /\ exc' = e
  /\ ohlcv' = Unset /\ sv' = Unset /\ sb' = Unset /\ out' = Unset

\* line 54 with the output file opened for writing at once
MakeDirsAndOpen ==
  /\ pc = "makedirs"
  /\ trace' = Append(trace, "makedirs")
  /\ dir_exists' = TRUE
  /\ file' = [exists |-> TRUE, header |-> <<>>, lines |-> <<>>]
  /\ pc' = "range"
  /\ UNCHANGED <<file0, dir0, range, ohlcv, sv, sb, out, exc, stdout, stderr, exit_code>>

\* line 54 left out: the directory is not created before the fetches
MakeDirsLate ==
  /\ pc = "makedirs"
  /\ trace' = Append(trace, "makedirs")
  /\ pc' = "range"
  /\ UNCHANGED <<dir_exists, file, file0, dir0, range, ohlcv, sv, sb, out, exc, stdout,
                 stderr, exit_code>>

\* line 54: os.makedirs(OUTPUT_DIR, exist_ok=True)
MakeDirs ==
  /\ pc = "makedirs"
  /\ trace' = Append(trace, "makedirs")
  /\ dir_exists' = TRUE
  /\ pc' = "range"
  /\ UNCHANGED <<file, file0, dir0, range, ohlcv, sv, sb, out, exc, stdout, stderr, exit_code>>

\* line 54, the directory cannot be created
MakeDirsFails ==
  /\ pc = "makedirs"
  /\ ~dir_exists
  /\ trace' = Append(trace, "makedirs")
  /\ Raise("OSError")
  /\ UNCHANGED <<dir_exists, file, file0, dir0, range, stdout, stderr, exit_code>>

\* line 56
Range56 ==
  /\ pc = "range"
  /\ range' = yyyymmdd_range(TodayOrdinal, LOOKBACK_DAYS)
  /\ pc' = "fetch_ohlcv"
  /\ UNCHANGED <<dir_exists, file, file0, dir0, ohlcv, sv, sb, out, exc, stdout, stderr,
                 exit_code, trace>>

\* lines 60-67
FetchOhlcv ==
  /\ pc = "fetch_ohlcv"
  /\ trace' = Append(trace, "get_market_ohlcv")
  /\ \E n \in OhlcvOutcomes :
       IF n.exc = "none"
       THEN /\ ohlcv' = n.df
            /\ pc' = "fetch_sv"
            /\ UNCHANGED <<sv, sb, out, exc>>
       ELSE Raise(n.exc)
  /\ UNCHANGED <<dir_exists, file, file0, dir0, range, stdout, stderr, exit_code>>

\* lines 71-82
FetchSv ==
  /\ pc = "fetch_sv"
  /\ trace' = Append(trace, "get_shorting_volume_by_date")
  /\ \E n \in SvOutcomes :
       IF n.exc = "none"
       THEN /\ sv' = n.df
            /\ pc' = "fetch_sb"
            /\ UNCHANGED <<ohlcv, sb, out, exc>>
       ELSE Raise(n.exc)
  /\ UNCHANGED <<dir_exists, file, file0, dir0, range, stdout, stderr, exit_code>>

\* lines 86-97
FetchSb ==
  /\ pc = "fetch_sb"
  /\ trace' = Append(trace, "get_shorting_balance_by_date")
  /\ \E n \in SbOutcomes :
       IF n.exc = "none"
       THEN /\ sb' = n.df
            /\ pc' = "merge"
            /\ UNCHANGED <<ohlcv, sv, out, exc>>
       ELSE Raise(n.exc)
  /\ UNCHANGED <<dir_exists, file, file0, dir0, range, stdout, stderr, exit_code>>

\* lines 60, 71, 86: the provider call itself raises
FetchRaises ==
  /\ pc \in {"fetch_ohlcv", "fetch_sv", "fetch_sb"}
  /\ trace' = Append(trace,
                 IF pc = "fetch_ohlcv" THEN "get_market_ohlcv"
                 ELSE IF pc = "fetch_sv" THEN "get_shorting_volume_by_date"
                 ELSE "get_shorting_balance_by_date")
  /\ Raise("ProviderError")
  /\ UNCHANGED <<dir_exists, file, file0, dir0, range, stdout, stderr, exit_code>>

\* lines 100-108
Merge ==
  /\ pc = "merge"
  /\ out' = merge_fill_sort(ohlcv, sv, sb)
  /\ pc' = "to_csv"
  /\ UNCHANGED <<dir_exists, file, file0, dir0, range, ohlcv, sv, sb, exc, stdout, stderr,
                 exit_code, trace>>

\* line 110: to_csv opens the file for writing, which creates or truncates it
OpenCsv ==
  /\ pc = "to_csv"
  /\ trace' = Append(trace, "open")
  /\ file' = [exists |-> TRUE, header |-> <<>>, lines |-> <<>>]
  /\ pc' = "writing"
  /\ UNCHANGED <<dir_exists, file0, dir0, range, ohlcv, sv, sb, out, exc, stdout, stderr,
                 exit_code>>

\* line 110: the file cannot be opened
OpenCsvFails ==
  /\ pc = "to_csv"
  /\ trace' = Append(trace, "open")
  /\ Raise("OSError")
  /\ UNCHANGED <<dir_exists, file, file0, dir0, range, stdout, stderr, exit_code>>

\* line 110: the header and every row reach the file
WriteCsv ==
  /\ pc = "writing"
  /\ trace' = Append(trace, "write")
  /\ file' = [exists |-> TRUE, header |-> out.columns, lines |-> CsvLines(out)]
  /\ pc' = "summary"
  /\ UNCHANGED <<dir_exists, file0, dir0, range, ohlcv, sv, sb, out, exc, stdout, stderr,
                 exit_code>>

\* line 110: a write fails (the disk is full, say); what reached the file
\* stays: nothing, or the header and some of the rows
WriteCsvFails ==
  /\ pc = "writing"
  /\ trace' = Append(trace, "write")
  /\ \/ UNCHANGED file
     \/ \E k \in 0..(Len(out.rows) - 1) :
          file' = [exists |-> TRUE, header |-> out.columns,
                   lines |-> SubSeq(CsvLines(out), 1, k)]
  /\ Raise("OSError")
  /\ UNCHANGED <<dir_exists, file0, dir0, range, stdout, stderr, exit_code>>

\* lines 111-113; with dates missing beside dates present, line 113 raises or
\* not with the version of pandas
Summary ==
  /\ pc = "summary"
  /\ \/ /\ stdout' = <<"[OK] saved", out.columns,
                       [rows |-> Len(out.rows), min |-> MinDate(out), max |-> MaxDate(out)]>>
        /\ pc' = "return"
        /\ UNCHANGED <<ohlcv, sv, sb, out, exc>>
     \/ /\ MinMaxRaises(out)
        /\ stdout' = <<"[OK] saved", out.columns>>
        /\ Raise("TypeError")
  /\ UNCHANGED <<dir_exists, file, file0, dir0, range, stderr, exit_code, trace>>

\* lines 116-117: main() returns and the interpreter exits
Exit ==
  /\ pc = "return"
  /\ exit_code' = 0
  /\ pc' = "exit"
  /\ UNCHANGED <<dir_exists, file, file0, dir0, range, ohlcv, sv, sb, out, exc, stdout, stderr,
                 trace>>

\* lines 118-119 without the sys.exit(1) of line 120
HandleExceptionNoExit ==
  /\ pc = "raised"
  /\ stderr' = Append(stderr, [prefix |-> "[ERROR]", message |-> exc])
  /\ exit_code' = 0
  /\ pc' = "exit"
  /\ UNCHANGED <<dir_exists, file, file0, dir0, range, ohlcv, sv, sb, out, exc, stdout, trace>>

\* lines 118-120
HandleException ==
  /\ pc = "raised"
  /\ stderr' = Append(stderr, [prefix |-> "[ERROR]", message |-> exc])
  /\ exit_code' = 1
  /\ pc' = "exit"
  /\ UNCHANGED <<dir_exists, file, file0, dir0, range, ohlcv, sv, sb, out, exc, stdout, trace>>

Next ==
  \/ MakeDirs
  \/ MakeDirsFails
  \/ Range56
  \/ FetchOhlcv
  \/ FetchSv
  \/ FetchSb
  \/ FetchRaises
  \/ Merge
  \/ OpenCsv
  \/ OpenCsvFails
  \/ WriteCsv
  \/ WriteCsvFails
  \/ Summary
  \/ Exit
  \/ HandleException

Spec == Init /\ [][Next]_vars

(***************************************************************************)
(* The properties of the specification, and what the code does.            *)
(***************************************************************************)
Last(q) == q[Len(q)]

\* the run ended with exit code 0: main() returned
Succeeded == pc = "exit" /\ exit_code = 0

\* the date of a line of the output file, and its cell of column c
LineDate(l) == l[1]

Field(l, c) == l[CHOOSE j \in DOMAIN file.header : file.header[j] = c]

FileDates == {LineDate(file.lines[i]) : i \in DOMAIN file.lines}

Matched(t, d) == \E i \in DOMAIN t.rows : t.rows[i].ilja = d

ShortFetches == {"get_shorting_volume_by_date", "get_shorting_balance_by_date"}

\* a formatted date lies in the window <<s, e>> that line 56 computed
InWindow(d) ==
  /\ d.k = "str"
  /\ LET c == SelectSeq(d.s, LAMBDA ch : ch # "-")
     IN  ~StrLess(c, range[1]) /\ ~StrLess(range[2], c)

\* C1: after every successful run the output file has as many rows as the
\* deduplicated price table has distinct dates, whatever the short-selling
\* tables hold
C1_RowCountIsPriceDateCount ==
  Succeeded => Len(file.lines) = Cardinality(Dates(ohlcv))

\* C2: after every successful run the rows of the output are strictly
\* descending by date, so that no date is on two rows
C2_StrictlyDescendingDates ==
  Succeeded =>
    \A i \in 1..(Len(file.lines) - 1) :
      Before(LineDate(file.lines[i]), LineDate(file.lines[i + 1]), TRUE)

\* C3 as stated: a run that fails at any step leaves the output file as it
\* found it
C3_FailedRunKeepsFile == (pc = "exit" /\ exit_code = 1) => file = file0

\* C3 as amended: until the write of line 110 has begun the output file is
\* as the run found it, so a run that fails in the directory creation, in a
\* fetch, in a normalisation, in the merge or in opening the file leaves it
\* unchanged
C3_FailureBeforeWriteKeepsFile ==
  (pc # "writing" /\ "write" \notin Range(trace)) => file = file0

C3_Witness ==
  /\ pc = "exit" /\ exit_code = 1
  /\ exc = "KeyError" /\ Last(trace) = "get_shorting_balance_by_date"
  /\ file0.exists /\ file = file0

\* C4: a provider fetch that raises ends the process with exit code 1 and
\* one [ERROR] line on standard error, the output file neither created nor
\* modified; a run without an exception exits with code 0
C4_FetchErrorExitsOne ==
  /\ exc = "ProviderError" =>
       /\ file = file0
       /\ pc \in {"raised", "exit"}
       /\ pc = "raised" => ENABLED HandleException
       /\ pc = "exit" =>
            /\ exit_code = 1
            /\ stderr = <<[prefix |-> "[ERROR]", message |-> "ProviderError"]>>
  /\ (pc = "exit" /\ exc = "none") => exit_code = 0
  /\ (pc = "return") => exc = "none" /\ ENABLED Exit

C4_Witness ==
  /\ pc = "exit" /\ exit_code = 1 /\ exc = "ProviderError"
  /\ Last(trace) = "get_shorting_volume_by_date"
  /\ ~file0.exists /\ ~file.exists

\* C5: no run is aborted by a date of the short-volume or short-balance
\* table that does not parse (the row is dropped and the run goes on)
C5_UnparseableDateNeverAborts ==
  ~(exc = "ValueError" /\ Last(trace) \in ShortFetches)

\* C6: in every row of the output of a successful run the four short-selling
\* columns hold numbers, and they hold 0 where the short-volume (the
\* short-balance) table has no row of that date; without any short-selling
\* data the rows are the price dates, one row each, newest first
C6_ShortColumnsAreNumbers ==
  Succeeded =>
    /\ Range(SHORT_COLS) \subseteq Range(file.header)
    /\ \A i \in DOMAIN file.lines :
         LET l == file.lines[i]
         IN  /\ \A c \in Range(SHORT_COLS) : Field(l, c).k = "num"
             /\ ~Matched(sv, LineDate(l)) =>
                  Field(l, "gongmaedo") = Num(0) /\ Field(l, "gongmaedo_bijung") = Num(0)
             /\ ~Matched(sb, LineDate(l)) =>
                  /\ Field(l, "gongmaedo_jango") = Num(0)
                  /\ Field(l, "gongmaedo_jango_bijung") = Num(0)
    /\ (sv.rows = <<>> /\ sb.rows = <<>>) =>
         /\ Len(file.lines) = Len(ohlcv.rows)
         /\ FileDates = Dates(ohlcv)
         /\ \A i \in 1..(Len(file.lines) - 1) :
              Before(LineDate(file.lines[i]), LineDate(file.lines[i + 1]), TRUE)

C6_Witness ==
  /\ Succeeded
  /\ sv.rows = <<>> /\ sb.rows = <<>>
  /\ Len(file.lines) = 3
  /\ LineDate(file.lines[1]) = Str(strftime_iso(DayEnd))
  /\ LineDate(file.lines[2]) = Str(strftime_iso(DayEnd - 1))
  /\ LineDate(file.lines[3]) = Str(strftime_iso(DayEnd - 2))
  /\ \A i \in 1..3 : \A c \in Range(SHORT_COLS) : Field(file.lines[i], c) = Num(0)

\* C7: the dates of the output of a successful run are the dates of the
\* price table, whatever dates the short-selling tables hold
C7_OutputDatesArePriceDates == Succeeded => FileDates = Dates(ohlcv)

C7_Witness ==
  /\ Succeeded
  /\ \E d \in Dates(sv) : d \notin Dates(ohlcv) /\ d \notin FileDates
  /\ \E d \in Dates(ohlcv) : ~Matched(sv, d) /\ ~Matched(sb, d) /\ d \in FileDates
  /\ sb.rows # <<>>

\* C8: the header of the file a successful run wrote is the eleven columns
\* of the schema, in order
C8_HeaderIsSchema == Succeeded => file.header = SCHEMA

\* C9 as stated: every row of the output has a date in the window of line 56
\* (a row whose date is missing is left aside)
C9_OutputDatesInWindow ==
  Succeeded => \A d \in FileDates : ~isna(d) => InWindow(d)

\* C9 as amended: every date of the output is a date of the price table the
\* provider returned, so the dates of the output lie in the window when those
\* of the price table do
C9_OutputDatesFromPriceTable ==
  Succeeded =>
    /\ FileDates \subseteq Dates(ohlcv)
    /\ (\A d \in Dates(ohlcv) : InWindow(d)) => \A d \in FileDates : InWindow(d)

C9_Witness ==
  /\ Succeeded
  /\ Len(file.lines) = 2
  /\ \A d \in FileDates : InWindow(d)
  /\ \E d \in Dates(sv) : d \notin Dates(ohlcv)

\* the calls with side effects, in the order main() makes them
CallOrder ==
  <<"makedirs", "get_market_ohlcv", "get_shorting_volume_by_date",
    "get_shorting_balance_by_date", "open", "write">>

\* C10: the directory is created before the first fetch, the fetches follow
\* one another as price, short volume, short balance, the file is opened
\* after the three fetches and the merge; a run that fails in a fetch has not
\* opened the file and has created the directory
C10_SideEffectOrder ==
  /\ Len(trace) <= Len(CallOrder)
  /\ trace = SubSeq(CallOrder, 1, Len(trace))
  /\ "get_market_ohlcv" \in Range(trace) => dir_exists
  /\ ("open" \in Range(trace) /\ exc = "none") => (ohlcv.df /\ sv.df /\ sb.df /\ out.df)
  /\ pc = "writing" => out = merge_fill_sort(ohlcv, sv, sb)
  /\ exc = "ProviderError" =>
       /\ "open" \notin Range(trace)
       /\ dir_exists
       /\ file = file0

C10_Witness ==
  /\ pc = "exit" /\ exc = "ProviderError"
  /\ Last(trace) = "get_shorting_balance_by_date"
  /\ ~dir0 /\ dir_exists /\ ~file.exists

=============================================================================
